---- MODULE Spec2Model ----
(***************************************************************************)
(* A model of the review toolkit MCP server: the session store             *)
(* (src/src/utils/review-session.ts), the tool handlers that drive it      *)
(* (src/src/index.ts, first revision in the file) and the chunked file     *)
(* reader (src/src/utils/file-content.ts).                                 *)
(*                                                                         *)
(* Three specifications share the module and the handlers' definitions:    *)
(*   Spec       one session in full detail: every file list, review text   *)
(*              and token limit, addressed by id or by project root;       *)
(*   SpecIndex  the project index: two projects, two sessions, forceNew,   *)
(*              with one-file sessions;                                    *)
(*   SpecChunk  the chunked reader: a caller that reads a file chunk by    *)
(*              chunk through getFileContent.                              *)
(* Each specification holds the variables it does not use constant.        *)
(***************************************************************************)
EXTENDS Integers, Sequences, FiniteSets, TLC

(***************************************************************************)
(* Bounds and input sets of the session engine model.                      *)
(***************************************************************************)
\* currentSessionTokenCount is unbounded in the code; submissions that would
\* take it past MaxWindow are not explored.
MaxWindow == 3

\* Session ids in the order createSession hands them out.  The code builds
\* `session_${Date.now()}_${random}`; the model keeps only that ids are fresh.
SessionIdSeq == <<"s1", "s2", "s3">>

SessionIds == {SessionIdSeq[i] : i \in 1..Len(SessionIdSeq)}

\* Project root folders a caller may name.
Projects == {"p1", "p2"}

\* File paths; "z" is never part of a file list.
Paths == {"a", "b", "z"}

\* File lists a caller may pass as `files` (<<>> stands for an omitted or
\* empty array: the handler treats both alike).
SuppliedLists == {<<>>, <<"a">>, <<"b", "a">>, <<"a", "a">>}

\* What listFiles may return: normalizeFilePath drops repeated paths.
DiscoveredLists == {<<>>, <<"b", "a">>}

\* Review texts an agent may submit, and file contents found on disk.
Texts == {"", "r"}

Contents == {"", "c"}

TokenLimits == {1, 2}

Modes == {"glob", "changed", "staged", "resume"}

\* The modes listFiles knows, and the modes a caller of listFiles may pass:
\* "last-commit" is in no listMethodMap entry.
ListFilesMode == {"glob", "changed", "staged"}

ListModes == ListFilesMode \cup {"last-commit", "resume"}

\* A glob argument: "" stands for an omitted pattern.
Globs == {"", "g"}

\* What a call of listFiles does: it throws, or returns a list.
NoListing == [ok |-> FALSE, files |-> <<>>]

Listings == {NoListing} \cup {[ok |-> TRUE, files |-> l] : l \in DiscoveredLists}

\* Server processes that share the sessions directory.
Writers == {"A", "B"}

\* Calls of start-review-session that one server process may have in
\* progress at a time.
Calls == {1, 2}

\* What Spec explores: one session, every input in detail.
DetailScope ==
    [maxSessions |-> 1, projects |-> {"p1"}, keys |-> {"s1", "p1", "p2"},
     lists |-> SuppliedLists, limits |-> TokenLimits, texts |-> Texts,
     contents |-> Contents, paths |-> Paths]

\* What SpecIndex explores: two sessions over two projects, one file each.
IndexScope ==
    [maxSessions |-> 2, projects |-> Projects, keys |-> {"s1", "s2", "p1", "p2"},
     lists |-> {<<>>, <<"a">>}, limits |-> {1}, texts |-> {"r"},
     contents |-> {""}, paths |-> {"a"}]

VARIABLES
    sessions,    \* the session files: session id -> ReviewSession
    index,       \* project-index.json: project folder -> session id
    resp,        \* the JSON body of the last tool response
    submitted,   \* history: <<session id, path>> of every successful submission
    fileLines,   \* chunked reader: the lines of the file being read
    budget,      \* chunked reader: the caller's token budget (`token`)
    chunk,       \* chunked reader: the last result of getFileContent
    chained,     \* chunked reader: every call so far continued the one before
    joined,      \* chunked reader: the caller's text, the contents returned
                 \* since the last call that did not continue another,
                 \* joined with newlines (as its lines)
    unreadable,  \* the ids of the session files that cannot be read or parsed
    indexUnreadable, \* project-index.json cannot be read or parsed
    stamped,     \* the ids of the session files the last handler wrote
                 \* (saveSession sets updatedAt on every write)
    writers,     \* server processes inside updateFileReview: what each has
                 \* read and not yet saved
    awaiting     \* start-review-session calls suspended at `await listFiles`:
                 \* the request of each

storeVars ==
    <<sessions, index, resp, submitted, unreadable, indexUnreadable, stamped,
      writers, awaiting>>

chunkVars == <<fileLines, budget, chunk, chained, joined>>

vars ==
    <<sessions, index, resp, submitted, fileLines, budget, chunk, chained, joined,
      unreadable, indexUnreadable, stamped, writers, awaiting>>

(***************************************************************************)
(* Token estimator.  The tokenizer (tiktoken) is outside the repository:   *)
(* texts are drawn from small sets and encodeLength gives each one's       *)
(* number of tokens.  A text of several lines is the sequence of its lines *)
(* (what split("\n") returns, never empty).                                *)
(***************************************************************************)
\* encoding.encode(text).length
encodeLength(text) ==
    CASE text = ""  -> 0
      [] text = "c" -> 1
      [] text = "r" -> 1
      [] text = "x" -> 1
      [] OTHER      -> 2

\* countToken as review-session.ts imports it: the tokens of the whole text
countToken(text) == encodeLength(text)

\* countToken as file-content.ts imports it: the tokens of each line
countTokenLines(lines) == [i \in 1..Len(lines) |-> encodeLength(lines[i])]

(***************************************************************************)
(* An optional value is a sequence of length 0 (absent) or 1 (present).    *)
(***************************************************************************)
None == <<>>

Some(v) == <<v>>

\* file.tokenCount || 0
tokenCountOrZero(file) == IF file.tokenCount = None THEN 0 ELSE file.tokenCount[1]

RECURSIVE SumTokenCounts(_)
\* session.files.reduce((sum, file) => sum + (file.tokenCount || 0), 0)
SumTokenCounts(files) ==
    IF files = <<>> THEN 0
    ELSE tokenCountOrZero(Head(files)) + SumTokenCounts(Tail(files))

\* A lookup that falls back on the first entry when no entry has the path.
findIndexOrFirst(files, filePath) ==
    IF \E i \in 1..Len(files) : files[i].path = filePath
    THEN CHOOSE i \in 1..Len(files) :
            /\ files[i].path = filePath
            /\ \A j \in 1..(i - 1) : files[j].path # filePath
    ELSE IF files = <<>> THEN 0 ELSE 1

\* files.findIndex(f => f.path === filePath); 0 stands for -1 (1-based here)
findIndex(files, filePath) ==
    IF \E i \in 1..Len(files) : files[i].path = filePath
    THEN CHOOSE i \in 1..Len(files) :
            /\ files[i].path = filePath
            /\ \A j \in 1..(i - 1) : files[j].path # filePath
    ELSE 0

\* the indices of the entries with reviewed = false
PendingIndices(files) == {i \in 1..Len(files) : ~files[i].reviewed}

\* A count of pending files that looks at the first entry only.
pendingCountFirstEntry(files) ==
    IF files # <<>> /\ ~files[1].reviewed THEN 1 ELSE 0

\* session.files.filter(f => !f.reviewed).length

pendingCount(files) == Cardinality(PendingIndices(files))

(***************************************************************************)
(* The session store (review-session.ts).  The operators read the stored   *)
(* sessions and index and return what the function saves.                  *)
(***************************************************************************)
\* A store whose getSession takes every file that exists for a session,
\* without the catch around reading and parsing it.
sessionExistsUnguarded(sessionId) == sessionId \in DOMAIN sessions

\* getSession(sessionId) is not null: the file exists, and reading and
\* parsing it does not throw (the catch returns null)
sessionExists(sessionId) ==
    sessionId \in DOMAIN sessions /\ sessionId \notin unreadable

\* getSessionIdForProject: index[projectFolder] || null, as an optional;
\* null too when reading or parsing the index throws
getSessionIdForProject(projectFolder) ==
    IF ~indexUnreadable /\ projectFolder \in DOMAIN index
    THEN Some(index[projectFolder])
    ELSE None

\* saveSession: writes the record under its id, replacing any earlier one.
\* (The file is named by session.id; every caller saves a session it read
\* under sessionId or has just built with that id.)
saveSession(sessionId, session) ==
    [k \in DOMAIN sessions \cup {sessionId} |->
        IF k = sessionId THEN session ELSE sessions[k]]

\* An index that points every project it lists at the new session.
saveProjectSessionIndexEverywhere(projectFolder, sessionId) ==
    [k \in DOMAIN index \cup {projectFolder} |-> sessionId]

\* An index that keeps the entry a project already has.
saveProjectSessionIndexIfAbsent(projectFolder, sessionId) ==
    [k \in DOMAIN index \cup {projectFolder} |->
        IF k \in DOMAIN index THEN index[k] ELSE sessionId]

\* saveProjectSessionIndex: index[projectFolder] = sessionId, starting from
\* {} when reading or parsing the index throws
saveProjectSessionIndex(projectFolder, sessionId) ==
    LET read == IF indexUnreadable THEN <<>> ELSE index
    IN  [k \in DOMAIN read \cup {projectFolder} |->
            IF k = projectFolder THEN sessionId ELSE read[k]]

\* An id generator that hands out the same id every time.
reusedSessionId == SessionIdSeq[1]

\* the id createSession generates: one no stored session has
newSessionId ==
    SessionIdSeq[IF Cardinality(DOMAIN sessions) < Len(SessionIdSeq)
                 THEN Cardinality(DOMAIN sessions) + 1
                 ELSE Len(SessionIdSeq)]

\* files.map(file => ({ path: file, reviewed: false, feedback: "" }))
newReviewFile(file) ==
    [path |-> file, reviewed |-> FALSE, feedback |-> "",
     agentReview |-> None, tokenCount |-> None]

\* A createSession that lists the files last first.
createSessionReversed(projectFolder, files, tokenLimit) ==
    [id |-> newSessionId,
     projectFolder |-> projectFolder,
     files |-> [i \in 1..Len(files) |-> newReviewFile(files[Len(files) + 1 - i])],
     totalTokenCount |-> 0,
     currentSessionTokenCount |-> 0,
     tokenLimit |-> tokenLimit,
     completed |-> FALSE]

\* createSession: the ReviewSession object it builds and saves
createSession(projectFolder, files, tokenLimit) ==
    [id |-> newSessionId,
     projectFolder |-> projectFolder,
     files |-> [i \in 1..Len(files) |-> newReviewFile(files[i])],
     totalTokenCount |-> 0,
     currentSessionTokenCount |-> 0,
     tokenLimit |-> tokenLimit,
     completed |-> FALSE]

\* updateFileReview finds the session and the file
canUpdateFileReview(sessionId, filePath) ==
    /\ sessionExists(sessionId)
    /\ findIndex(sessions[sessionId].files, filePath) # 0

\* updateFileReview, between its getSession and its saveSession: the changes
\* it makes to the session it has read.  agentReview is optional (None when
\* the caller passes five arguments).
reviewedSession(session, filePath, fileContent, reviewed, feedback, agentReview) ==
    LET fileIndex == findIndex(session.files, filePath)
        truthy == agentReview # None /\ agentReview # Some("")
        fileTokens == countToken(fileContent)
        feedbackTokens == countToken(feedback)
        agentReviewTokens == IF truthy THEN countToken(agentReview[1]) ELSE 0
        currentFileTokens == fileTokens + feedbackTokens + agentReviewTokens
        files == [session.files EXCEPT
                    ![fileIndex] = [@ EXCEPT
                        !.reviewed = reviewed,
                        !.feedback = feedback,
                        !.agentReview = IF truthy THEN agentReview ELSE @,
                        !.tokenCount = Some(currentFileTokens)]]
    IN  [session EXCEPT
            !.files = files,
            !.totalTokenCount = SumTokenCounts(files),
            !.currentSessionTokenCount = @ + currentFileTokens]

\* A store that kept totalTokenCount as a running total, adding each
\* submission's tokens to it instead of summing the entries again.
updateFileReviewRunningTotal(sessionId, filePath, fileContent, reviewed, feedback, agentReview) ==
    LET session == sessions[sessionId]
        fileIndex == findIndex(session.files, filePath)
        truthy == agentReview # None /\ agentReview # Some("")
        currentFileTokens ==
            countToken(fileContent) + countToken(feedback)
                + (IF truthy THEN countToken(agentReview[1]) ELSE 0)
    IN  [session EXCEPT
            !.files[fileIndex] = [@ EXCEPT
                !.reviewed = reviewed,
                !.feedback = feedback,
                !.agentReview = IF truthy THEN agentReview ELSE @,
                !.tokenCount = Some(currentFileTokens)],
            !.totalTokenCount = @ + currentFileTokens,
            !.currentSessionTokenCount = @ + currentFileTokens]

\* A store that sets an entry's tokenCount on its first submission only.
updateFileReviewKeepFirst(sessionId, filePath, fileContent, reviewed, feedback, agentReview) ==
    LET session == sessions[sessionId]
        fileIndex == findIndex(session.files, filePath)
        truthy == agentReview # None /\ agentReview # Some("")
        currentFileTokens ==
            countToken(fileContent) + countToken(feedback)
                + (IF truthy THEN countToken(agentReview[1]) ELSE 0)
        files == [session.files EXCEPT
                    ![fileIndex] = [@ EXCEPT
                        !.reviewed = reviewed,
                        !.feedback = feedback,
                        !.agentReview = IF truthy THEN agentReview ELSE @,
                        !.tokenCount = IF @ = None THEN Some(currentFileTokens) ELSE @]]
    IN  [session EXCEPT
            !.files = files,
            !.totalTokenCount = SumTokenCounts(files),
            !.currentSessionTokenCount = @ + currentFileTokens]

\* A store that recomputes the window count from the entries, as it does the
\* total, instead of adding the submission's tokens to it.
updateFileReviewRecomputedWindow(sessionId, filePath, fileContent, reviewed, feedback, agentReview) ==
    LET session == sessions[sessionId]
        fileIndex == findIndex(session.files, filePath)
        truthy == agentReview # None /\ agentReview # Some("")
        currentFileTokens ==
            countToken(fileContent) + countToken(feedback)
                + (IF truthy THEN countToken(agentReview[1]) ELSE 0)
        files == [session.files EXCEPT
                    ![fileIndex] = [@ EXCEPT
                        !.reviewed = reviewed,
                        !.feedback = feedback,
                        !.agentReview = IF truthy THEN agentReview ELSE @,
                        !.tokenCount = Some(currentFileTokens)]]
    IN  [session EXCEPT
            !.files = files,
            !.totalTokenCount = SumTokenCounts(files),
            !.currentSessionTokenCount = SumTokenCounts(files)]

\* A store that writes the agentReview argument to the entry whatever it is.
updateFileReviewOverwriting(sessionId, filePath, fileContent, reviewed, feedback, agentReview) ==
    LET session == sessions[sessionId]
        fileIndex == findIndex(session.files, filePath)
        given == agentReview # None /\ agentReview # Some("")
        currentFileTokens ==
            countToken(fileContent) + countToken(feedback)
                + (IF given THEN countToken(agentReview[1]) ELSE 0)
        files == [session.files EXCEPT
                    ![fileIndex] = [@ EXCEPT
                        !.reviewed = reviewed,
                        !.feedback = feedback,
                        !.agentReview = agentReview,
                        !.tokenCount = Some(currentFileTokens)]]
    IN  [session EXCEPT
            !.files = files,
            !.totalTokenCount = SumTokenCounts(files),
            !.currentSessionTokenCount = @ + currentFileTokens]

\* A store that sets agentReview on an entry that has none, and keeps a
\* stored one.
updateFileReviewSetOnce(sessionId, filePath, fileContent, reviewed, feedback, agentReview) ==
    LET session == sessions[sessionId]
        fileIndex == findIndex(session.files, filePath)
        given == agentReview # None /\ agentReview # Some("")
        currentFileTokens ==
            countToken(fileContent) + countToken(feedback)
                + (IF given THEN countToken(agentReview[1]) ELSE 0)
        files == [session.files EXCEPT
                    ![fileIndex] = [@ EXCEPT
                        !.reviewed = reviewed,
                        !.feedback = feedback,
                        !.agentReview = IF given /\ @ = None THEN agentReview ELSE @,
                        !.tokenCount = Some(currentFileTokens)]]
    IN  [session EXCEPT
            !.files = files,
            !.totalTokenCount = SumTokenCounts(files),
            !.currentSessionTokenCount = @ + currentFileTokens]

\* updateFileReview: the session it saves
updateFileReview(sessionId, filePath, fileContent, reviewed, feedback, agentReview) ==
    reviewedSession(sessions[sessionId], filePath, fileContent, reviewed, feedback,
                    agentReview)

\* getNextFileToReview: session.files.find(file => !file.reviewed), optional
getNextFileToReview(sessionId) ==
    LET files == sessions[sessionId].files
        pending == PendingIndices(files)
    IN  IF pending = {} THEN None
        ELSE Some(files[CHOOSE i \in pending : \A j \in pending : i <= j])

\* A completion that also empties the list of file entries.
completeSessionCleared(sessionId) ==
    [sessions[sessionId] EXCEPT !.completed = TRUE, !.files = <<>>]

\* completeSession: session.completed = true
completeSession(sessionId) == [sessions[sessionId] EXCEPT !.completed = TRUE]

\* A reset that clears the total along with the window count (what the
\* comment in resetSessionTokenCount says it does not do).
resetAllTokenCounts(sessionId) ==
    [sessions[sessionId] EXCEPT !.currentSessionTokenCount = 0,
                                !.totalTokenCount = 0]

\* A reset that also forgets the token count of every entry.
resetEntryTokenCounts(sessionId) ==
    [sessions[sessionId] EXCEPT
        !.currentSessionTokenCount = 0,
        !.files = [i \in 1..Len(@) |-> [@[i] EXCEPT !.tokenCount = None]]]

\* resetSessionTokenCount: session.currentSessionTokenCount = 0
resetSessionTokenCount(sessionId) ==
    [sessions[sessionId] EXCEPT !.currentSessionTokenCount = 0]

(***************************************************************************)
(* Tool handlers (index.ts).  A handler is an operator from the stored     *)
(* state and the request to its outcome: the sessions and index it leaves  *)
(* on disk and the response it returns.  Every response is a record of the *)
(* same shape; fields a response does not carry hold "", 0 or FALSE.       *)
(* sessionId is the session the handler resolved its key to; the JSON of   *)
(* get-next-review-file, generate-review-report and get-file-review does   *)
(* not print it.  Messages are short tags for the handlers' texts.         *)
(***************************************************************************)
Response(op, status, message, sessionId, filePath, pending) ==
    [op |-> op, status |-> status, message |-> message,
     sessionId |-> sessionId, filePath |-> filePath, pendingCount |-> pending,
     tokenCount |-> 0, exceedsTokenLimit |-> FALSE,
     reviewed |-> FALSE, agentReview |-> ""]

\* a handler that saves nothing
ReadOnly(response) ==
    [sessions |-> sessions, index |-> index, resp |-> response,
     indexUnreadable |-> indexUnreadable, stamped |-> {}]

ErrorOutcome(op, message) == ReadOnly(Response(op, "error", message, "", "", 0))

\* a handler that saves one session
Saved(sessionId, session, response) ==
    [sessions |-> saveSession(sessionId, session), index |-> index, resp |-> response,
     indexUnreadable |-> indexUnreadable, stamped |-> {sessionId}]

\* A prologue that takes the key for a session id only.
resolveKeyIdOnly(key) == IF sessionExists(key) THEN Some(key) ELSE None

\* The handlers' shared prologue: the key is a session id if a session is
\* stored under it, else it is looked up in the project index.
resolveKey(key) ==
    IF sessionExists(key) THEN Some(key) ELSE getSessionIdForProject(key)

\* start-review-session finds a session to resume: forceNew is off, the
\* index names a session for the project, it is stored and not completed.
\* (The handler makes this check once for mode "resume" and once for the
\* other modes, with the same outcome.)
resumable(projectRoot, forceNew) ==
    /\ ~forceNew
    /\ getSessionIdForProject(projectRoot) # None
    /\ sessionExists(index[projectRoot])
    /\ ~sessions[index[projectRoot]].completed

\* start-review-session, resuming: reset the window counter, answer "resumed"
resumeSession(projectRoot) ==
    LET sessionId == index[projectRoot]
        session == resetSessionTokenCount(sessionId)
    IN  Saved(sessionId, session,
              Response("start", "resumed", "", sessionId, "",
                       pendingCount(session.files)))

\* start-review-session, the call of createSession and the "created" answer
createdSession(projectRoot, files, tokenLimit) ==
    [sessions |-> saveSession(newSessionId,
                              createSession(projectRoot, files, tokenLimit)),
     index |-> saveProjectSessionIndex(projectRoot, newSessionId),
     resp |-> Response("start", "created", "", newSessionId, "", Len(files)),
     indexUnreadable |-> FALSE,
     stamped |-> {newSessionId}]

\* A listFiles that asks for no glob pattern and knows every mode.
listFilesAnyMode(mode, glob, found) == found

\* listFiles: it throws for a mode that listMethodMap does not have and,
\* in mode "glob", for a missing pattern; else the outcome is that of the
\* glob or git call, `found`
listFiles(mode, glob, found) ==
    IF mode \notin ListFilesMode THEN NoListing
    ELSE IF mode = "glob" /\ glob = "" THEN NoListing
    ELSE found

\* A start-review-session without the check that some file was found.
startNewSessionUnchecked(a) ==
    IF a.files # <<>> THEN createdSession(a.projectRoot, a.files, a.tokenLimit)
    ELSE IF a.mode = "glob" /\ a.glob = "" THEN ErrorOutcome("start", "glob_required")
    ELSE IF a.mode = "resume" THEN ErrorOutcome("start", "no_session_to_resume")
    ELSE IF ~listFiles(a.mode, a.glob, a.listing).ok
    THEN ErrorOutcome("start", "list_failed")
    ELSE createdSession(a.projectRoot, listFiles(a.mode, a.glob, a.listing).files,
                        a.tokenLimit)

\* start-review-session, past the resume checks: the file list is the
\* caller's, or comes from listFiles when the caller gave none; a.listing
\* is what listFiles does if called.
startNewSession(a) ==
    IF a.files # <<>> THEN createdSession(a.projectRoot, a.files, a.tokenLimit)
    ELSE IF a.mode = "glob" /\ a.glob = "" THEN ErrorOutcome("start", "glob_required")
    ELSE IF a.mode = "resume" THEN ErrorOutcome("start", "no_session_to_resume")
    ELSE IF ~listFiles(a.mode, a.glob, a.listing).ok
    THEN ErrorOutcome("start", "list_failed")
    ELSE IF listFiles(a.mode, a.glob, a.listing).files = <<>>
    THEN ErrorOutcome("start", "no_files")
    ELSE createdSession(a.projectRoot, listFiles(a.mode, a.glob, a.listing).files,
                        a.tokenLimit)

\* the start-review-session handler
startReviewSession(a) ==
    IF resumable(a.projectRoot, a.forceNew)
    THEN resumeSession(a.projectRoot)
    ELSE startNewSession(a)

\* A get-next-review-file that refuses at the limit already (>= for >).
nextFileResponseAtLimit(sessionId) ==
    LET session == sessions[sessionId]
        pending == pendingCount(session.files)
        nextFile == getNextFileToReview(sessionId)
    IN  IF session.currentSessionTokenCount >= session.tokenLimit
        THEN IF pending = 0
             THEN Response("next", "token_limit_exceeded_all_reviewed", "",
                           sessionId, "", 0)
             ELSE Response("next", "token_limit_exceeded", "", sessionId, "", pending)
        ELSE IF nextFile = None
             THEN Response("next", "completed", "", sessionId, "", 0)
             ELSE Response("next", "success", "", sessionId, nextFile[1].path, 0)

\* A get-next-review-file that names the next file whatever the window
\* count is.
nextFileResponseUnbudgeted(sessionId) ==
    LET nextFile == getNextFileToReview(sessionId)
    IN  IF nextFile = None
        THEN Response("next", "completed", "", sessionId, "", 0)
        ELSE Response("next", "success", "", sessionId, nextFile[1].path, 0)

\* get-next-review-file, once the session is found
nextFileResponse(sessionId) ==
    LET session == sessions[sessionId]
        pending == pendingCount(session.files)
        nextFile == getNextFileToReview(sessionId)
    IN  IF session.currentSessionTokenCount > session.tokenLimit
        THEN IF pending = 0
             THEN Response("next", "token_limit_exceeded_all_reviewed", "",
                           sessionId, "", 0)
             ELSE Response("next", "token_limit_exceeded", "", sessionId, "", pending)
        ELSE IF nextFile = None
             THEN Response("next", "completed", "", sessionId, "", 0)
             ELSE Response("next", "success", "", sessionId, nextFile[1].path, 0)

\* A get-next-review-file that saves the session it has looked at.
getNextReviewFileTouching(key) ==
    IF resolveKey(key) = None THEN ErrorOutcome("next", "no_session")
    ELSE IF ~sessionExists(resolveKey(key)[1])
         THEN ErrorOutcome("next", "session_not_found")
         ELSE Saved(resolveKey(key)[1], sessions[resolveKey(key)[1]],
                    nextFileResponse(resolveKey(key)[1]))

\* the get-next-review-file handler
getNextReviewFile(key) ==
    IF resolveKey(key) = None THEN ErrorOutcome("next", "no_session")
    ELSE IF ~sessionExists(resolveKey(key)[1])
         THEN ErrorOutcome("next", "session_not_found")
         ELSE ReadOnly(nextFileResponse(resolveKey(key)[1]))

\* the file content submit-file-review counts: read from root/filePath with
\* root = projectRoot || key, "" when nothing is there.  a.onDisk is what
\* the project folder holds for the path at the time of the call; a session
\* id is no folder.
readForReview(a) ==
    LET root == IF a.projectRoot # "" THEN a.projectRoot ELSE a.key
    IN  IF root \in Projects THEN a.onDisk ELSE ""

\* the submit-file-review handler
submitFileReview(a) ==
    LET sessionId == resolveKey(a.key)[1]
        session == updateFileReview(sessionId, a.filePath, readForReview(a),
                                    TRUE, a.agentReview, None)
    IN  IF resolveKey(a.key) = None THEN ErrorOutcome("submit", "no_session")
        ELSE IF ~canUpdateFileReview(sessionId, a.filePath)
        THEN ErrorOutcome("submit", "update_failed")
        ELSE Saved(sessionId, session,
                   [Response("submit", "success", "", sessionId, a.filePath,
                             pendingCount(session.files))
                    EXCEPT !.tokenCount = session.currentSessionTokenCount,
                           !.exceedsTokenLimit =
                               session.currentSessionTokenCount > session.tokenLimit])

\* A complete-review-session without the check for unreviewed files.
completeReviewSessionUnchecked(key) ==
    LET sessionId == resolveKey(key)[1]
    IN  IF resolveKey(key) = None THEN ErrorOutcome("complete", "no_session")
        ELSE IF ~sessionExists(sessionId)
        THEN ErrorOutcome("complete", "session_not_found")
        ELSE Saved(sessionId, completeSession(sessionId),
                   Response("complete", "success", "", sessionId, "", 0))

\* the complete-review-session handler
completeReviewSession(key) ==
    LET sessionId == resolveKey(key)[1]
        pending == pendingCount(sessions[sessionId].files)
    IN  IF resolveKey(key) = None THEN ErrorOutcome("complete", "no_session")
        ELSE IF ~sessionExists(sessionId)
        THEN ErrorOutcome("complete", "session_not_found")
        ELSE IF pending > 0
        THEN ReadOnly(Response("complete", "error", "pending_files",
                               sessionId, "", pending))
        ELSE Saved(sessionId, completeSession(sessionId),
                   Response("complete", "success", "", sessionId, "", 0))

\* generateSessionReport, the numbers of its summary: total, reviewed and
\* pending files (two filters over session.files)
generateSessionReport(sessionId) ==
    LET files == sessions[sessionId].files
    IN  [found |-> sessionExists(sessionId),
         totalFiles |-> Len(files),
         reviewedFiles |-> Cardinality({i \in 1..Len(files) : files[i].reviewed}),
         pendingFiles |-> Cardinality({i \in 1..Len(files) : ~files[i].reviewed})]

\* saveSessionReport is imported by index.ts from review-session.ts, which
\* does not define it in this repository.  By the specification a report is
\* a projection of the session that changes no state: the operator gives the
\* sessions the call leaves stored.
saveSessionReport(sessionId) == sessions

\* the generate-review-report handler
generateReviewReport(key) ==
    IF resolveKey(key) = None THEN ErrorOutcome("report", "no_session")
    ELSE [sessions |-> saveSessionReport(resolveKey(key)[1]),
          index |-> index,
          resp |-> Response("report", "success", "", resolveKey(key)[1], "", 0),
          indexUnreadable |-> indexUnreadable,
          stamped |-> {}]

\* the get-file-review handler: the entry is the first with the path, and
\* the answer carries fileInfo.agentReview || ""
getFileReview(key, filePath) ==
    LET sessionId == resolveKey(key)[1]
        files == sessions[sessionId].files
        fileInfo == files[findIndex(files, filePath)]
    IN  IF resolveKey(key) = None THEN ErrorOutcome("review", "no_session")
        ELSE IF ~sessionExists(sessionId)
        THEN ErrorOutcome("review", "session_not_found")
        ELSE IF findIndex(files, filePath) = 0
        THEN ErrorOutcome("review", "file_not_found")
        ELSE ReadOnly([Response("review", "success", "", sessionId, fileInfo.path, 0)
                       EXCEPT !.reviewed = fileInfo.reviewed,
                              !.agentReview = IF fileInfo.agentReview = None THEN ""
                                              ELSE fileInfo.agentReview[1]])

\* a process that is not inside updateFileReview
IdleWriter == [pc |-> "idle", sessionId |-> "", request |-> None, session |-> None]

(***************************************************************************)
(* Requests.  An argument the handler does not read on a path is held at   *)
(* one value there: the glob outside mode "glob", what listFiles does when *)
(* the handler would not call it, and the disk content when the root is no *)
(* folder.  A projectRoot is given along with a session id only: with a    *)
(* project root as the key the file is read from a project folder anyway.  *)
(***************************************************************************)
StartRequests(scope) ==
    {a \in [projectRoot : scope.projects, mode : Modes, glob : Globs,
            files : scope.lists, tokenLimit : scope.limits,
            forceNew : BOOLEAN, listing : Listings] :
        /\ a.mode # "glob" => a.glob = ""
        /\ (a.files # <<>> \/ a.mode = "resume" \/ (a.mode = "glob" /\ a.glob = ""))
               => a.listing = NoListing}

SubmitRequests(scope) ==
    {a \in [key : scope.keys, filePath : scope.paths, agentReview : scope.texts,
            projectRoot : {"", "p1"}, onDisk : scope.contents] :
        /\ (a.projectRoot = "" /\ a.key \notin Projects) => a.onDisk = ""
        /\ a.key \in Projects => a.projectRoot = ""}

(***************************************************************************)
(* Actions: one per tool handler, applied to a request.                    *)
(***************************************************************************)
Apply(outcome) ==
    /\ sessions' = outcome.sessions
    /\ index' = outcome.index
    /\ resp' = outcome.resp
    /\ indexUnreadable' = outcome.indexUnreadable
    /\ stamped' = outcome.stamped
    /\ UNCHANGED <<unreadable, writers, awaiting>>

\* The code has no limit on the number of sessions; the model stops
\* creating them at scope.maxSessions.
Start(scope, requests) ==
    \E a \in requests :
        /\ startReviewSession(a).resp.status = "created"
               => Cardinality(DOMAIN sessions) < scope.maxSessions
        /\ Apply(startReviewSession(a))
        /\ UNCHANGED submitted

NextFile(scope) ==
    \E key \in scope.keys :
        /\ Apply(getNextReviewFile(key))
        /\ UNCHANGED submitted

Submit(requests) ==
    \E a \in requests :
        LET outcome == submitFileReview(a)
            ok == outcome.resp.status = "success"
        IN  /\ ok => outcome.sessions[outcome.resp.sessionId]
                        .currentSessionTokenCount <= MaxWindow
            /\ Apply(outcome)
            /\ submitted' = IF ok
                            THEN submitted \cup {<<outcome.resp.sessionId, a.filePath>>}
                            ELSE submitted

Complete(scope) ==
    \E key \in scope.keys :
        /\ Apply(completeReviewSession(key))
        /\ UNCHANGED submitted

Report(scope) ==
    \E key \in scope.keys :
        /\ Apply(generateReviewReport(key))
        /\ UNCHANGED submitted

FileReview(scope) ==
    \E key \in scope.keys, filePath \in scope.paths :
        /\ Apply(getFileReview(key, filePath))
        /\ UNCHANGED submitted

(***************************************************************************)
(* The session engine.                                                     *)
(***************************************************************************)
NoResponse == Response("", "", "", "", "", 0)

NoChunk ==
    [called |-> FALSE, startLine |-> 0, content |-> <<"">>, endLine |-> 0,
     isEnded |-> FALSE]

Init ==
    /\ sessions = <<>>
    /\ index = <<>>
    /\ resp = NoResponse
    /\ submitted = {}
    /\ unreadable = {}
    /\ indexUnreadable = FALSE
    /\ stamped = {}
    /\ writers = [w \in Writers |-> IdleWriter]
    /\ awaiting = [c \in Calls |-> None]
    /\ fileLines = <<"">>
    /\ budget = 0
    /\ chunk = NoChunk
    /\ chained = FALSE
    /\ joined = <<>>

DetailStartRequests == StartRequests(DetailScope)

DetailSubmitRequests == SubmitRequests(DetailScope)

Next ==
    \/ Start(DetailScope, DetailStartRequests) /\ UNCHANGED chunkVars
    \/ NextFile(DetailScope) /\ UNCHANGED chunkVars
    \/ Submit(DetailSubmitRequests) /\ UNCHANGED chunkVars
    \/ Complete(DetailScope) /\ UNCHANGED chunkVars
    \/ Report(DetailScope) /\ UNCHANGED chunkVars
    \/ FileReview(DetailScope) /\ UNCHANGED chunkVars

Spec == Init /\ [][Next]_vars

IndexStartRequests == StartRequests(IndexScope)

IndexSubmitRequests == SubmitRequests(IndexScope)

NextIndex ==
    \/ Start(IndexScope, IndexStartRequests) /\ UNCHANGED chunkVars
    \/ NextFile(IndexScope) /\ UNCHANGED chunkVars
    \/ Submit(IndexSubmitRequests) /\ UNCHANGED chunkVars
    \/ Complete(IndexScope) /\ UNCHANGED chunkVars
    \/ Report(IndexScope) /\ UNCHANGED chunkVars
    \/ FileReview(IndexScope) /\ UNCHANGED chunkVars

SpecIndex == Init /\ [][NextIndex]_vars

(***************************************************************************)
(* The chunked reader (file-content.ts).                                   *)
(***************************************************************************)
\* Bounds of the reader model.
MaxLines == 3

MaxBudget == 4

\* Line texts, of 0, 1 and 2 tokens.
LineTexts == {"", "x", "xy"}

\* Files: the sequences of 1..MaxLines lines.
Files == UNION {[1..n -> LineTexts] : n \in 1..MaxLines}

\* Budgets a caller may pass as `token`: the parameter is a number, so 0 is
\* a budget.
Budgets == 0..MaxBudget

RECURSIVE getEndlineLoop(_, _, _, _)
\* The loop of getEndline, with endLine counted from 0 as in the code.  When
\* endLine is no index of lineTokens, lineTokens[endLine] is undefined and
\* currentToken becomes NaN: endLine++ still runs, then NaN < token is false
\* and the loop ends.
getEndlineLoop(endLine, currentToken, lineTokens, token) ==
    IF ~(currentToken < token) THEN endLine
    ELSE IF endLine + 1 \in DOMAIN lineTokens
         THEN getEndlineLoop(endLine + 1, currentToken + lineTokens[endLine + 1],
                             lineTokens, token)
         ELSE endLine + 1

RECURSIVE getEndlineWithinBudgetLoop(_, _, _, _)
getEndlineWithinBudgetLoop(endLine, currentToken, lineTokens, token) ==
    IF endLine + 1 \in DOMAIN lineTokens
           /\ currentToken + lineTokens[endLine + 1] <= token
    THEN getEndlineWithinBudgetLoop(endLine + 1, currentToken + lineTokens[endLine + 1],
                                    lineTokens, token)
    ELSE endLine

\* A reader that stops before the line that would take it past the budget.
getEndlineWithinBudget(startLine, lineTokens, token) ==
    getEndlineWithinBudgetLoop(startLine, 0, lineTokens, token)

RECURSIVE getEndlineInclusiveLoop(_, _, _, _)
getEndlineInclusiveLoop(endLine, currentToken, lineTokens, token) ==
    IF ~(currentToken <= token) THEN endLine
    ELSE IF endLine + 1 \in DOMAIN lineTokens
         THEN getEndlineInclusiveLoop(endLine + 1, currentToken + lineTokens[endLine + 1],
                                      lineTokens, token)
         ELSE endLine + 1

\* A reader whose loop goes on while the budget is just reached (<= for <).
getEndlineInclusive(startLine, lineTokens, token) ==
    getEndlineInclusiveLoop(startLine, 0, lineTokens, token)

\* A reader that starts counting at the line after startLine.
getEndlineAfterStart(startLine, lineTokens, token) ==
    getEndlineLoop(startLine + 1, 0, lineTokens, token)

\* getEndline(startLine, lineTokens, token)
getEndline(startLine, lineTokens, token) ==
    getEndlineLoop(startLine, 0, lineTokens, token)

\* lines.slice(start, end) for 0 <= start: the lines start..end-1, counted
\* from 0, as far as the array has them
slice(lines, start, end) ==
    LET last == IF end < Len(lines) THEN end ELSE Len(lines)
    IN  IF start >= last THEN <<>> ELSE [i \in 1..(last - start) |-> lines[start + i]]

\* contentByLine.join("\n"), as the lines of the joined text: joining no
\* line gives the empty text, which has one empty line
join(lines) == IF lines = <<>> THEN <<"">> ELSE lines

\* getFileContent(root, filePath, token, startLine) on a file with these lines
getFileContent(lines, token, startLine) ==
    LET lineTokens == countTokenLines(lines)
        endLine == getEndline(startLine, lineTokens, token)
    IN  [called |-> TRUE,
         startLine |-> startLine,
         content |-> join(slice(lines, startLine, endLine)),
         endLine |-> endLine,
         isEnded |-> endLine = Len(lineTokens)]

\* A caller reads from the start of the file (startLine omitted or 0).
ReadFirst ==
    /\ chunk' = getFileContent(fileLines, budget, 0)
    /\ chained' = TRUE
    /\ joined' = getFileContent(fileLines, budget, 0).content
    /\ UNCHANGED <<fileLines, budget>>

\* A caller that was not told the file has ended asks for the next chunk,
\* passing the endLine it got as startLine.  (The cursor and the number of
\* calls are unbounded in the code; the model follows the cursor up to two
\* lines past the file, and the caller's text up to MaxLines + 2 lines.)
ReadNext ==
    /\ chunk.called
    /\ ~chunk.isEnded
    /\ chunk.endLine <= Len(fileLines) + 1
    /\ Len(joined) <= MaxLines + 1
    /\ chunk' = getFileContent(fileLines, budget, chunk.endLine)
    /\ joined' = joined \o getFileContent(fileLines, budget, chunk.endLine).content
    /\ UNCHANGED <<fileLines, budget, chained>>

\* A caller reads from any line, in or just past the file.
ReadAt ==
    \E startLine \in 0..(Len(fileLines) + 1) :
        /\ chunk' = getFileContent(fileLines, budget, startLine)
        /\ chained' = FALSE
        /\ joined' = getFileContent(fileLines, budget, startLine).content
        /\ UNCHANGED <<fileLines, budget>>

InitChunk ==
    /\ sessions = <<>>
    /\ index = <<>>
    /\ resp = NoResponse
    /\ submitted = {}
    /\ unreadable = {}
    /\ indexUnreadable = FALSE
    /\ stamped = {}
    /\ writers = [w \in Writers |-> IdleWriter]
    /\ awaiting = [c \in Calls |-> None]
    /\ fileLines \in Files
    /\ budget \in Budgets
    /\ chunk = NoChunk
    /\ chained = FALSE
    /\ joined = <<>>

NextChunk ==
    \/ ReadFirst /\ UNCHANGED storeVars
    \/ ReadNext /\ UNCHANGED storeVars
    \/ ReadAt /\ UNCHANGED storeVars

SpecChunk == InitChunk /\ [][NextChunk]_vars

(***************************************************************************)
(* Properties of the session engine.                                       *)
(***************************************************************************)
\* the stored sessions of a project
SessionsOf(projectFolder) ==
    {id \in DOMAIN sessions : sessions[id].projectFolder = projectFolder}

\* the token counts recorded in a file list, entry by entry from the last
EntryTokenTotal(files) ==
    LET counted == {i \in 1..Len(files) : files[i].tokenCount # None}
        upTo[n \in 0..Len(files)] ==
            IF n = 0 THEN 0
            ELSE upTo[n - 1] + (IF n \in counted THEN files[n].tokenCount[1] ELSE 0)
    IN  upTo[Len(files)]

\* C1: in every stored session, whatever creations, resumptions, submissions
\* (repeated ones included) and completions led to it, totalTokenCount is
\* the sum of the tokenCount of its file entries, an entry without
\* tokenCount counting as 0.
C1_TotalIsSumOfTokenCounts ==
    \A id \in DOMAIN sessions :
        sessions[id].totalTokenCount = EntryTokenTotal(sessions[id].files)

\* C1 witness: a submission has just been saved in a session whose window
\* count exceeds its total, which takes a repeated submission for one file.
C1_Witness ==
    /\ resp.op = "submit"
    /\ resp.status = "success"
    /\ sessions[resp.sessionId].totalTokenCount > 0
    /\ sessions[resp.sessionId].currentSessionTokenCount
           > sessions[resp.sessionId].totalTokenCount

\* C2 (as claimed): once a submission for path F has succeeded in a session,
\* get-next-review-file on that session never answers F again.
C2_NextFileNeverReturnsSubmitted ==
    \A pair \in submitted :
        LET answer == getNextReviewFile(pair[1]).resp
        IN  ~(answer.status = "success" /\ answer.filePath = pair[2])

\* C3: get-next-review-file checks the budget before it looks for a file.
\* Over the limit it answers token_limit_exceeded when a file is unreviewed
\* and token_limit_exceeded_all_reviewed when none is, and names no file; at
\* or under the limit it names the first unreviewed entry in list order, or
\* answers completed when there is none.
C3_NextFileBudgetFirst ==
    \A key \in DetailScope.keys :
        resolveKey(key) # None =>
            LET session == sessions[resolveKey(key)[1]]
                answer == getNextReviewFile(key).resp
                unreviewed == {i \in 1..Len(session.files) :
                                  session.files[i].reviewed = FALSE}
                over == session.currentSessionTokenCount > session.tokenLimit
            IN  /\ (over /\ unreviewed # {}) =>
                       /\ answer.status = "token_limit_exceeded"
                       /\ answer.filePath = ""
                /\ (over /\ unreviewed = {}) =>
                       /\ answer.status = "token_limit_exceeded_all_reviewed"
                       /\ answer.filePath = ""
                /\ (~over /\ unreviewed # {}) =>
                       /\ answer.status = "success"
                       /\ \E i \in unreviewed :
                             /\ \A j \in unreviewed : i <= j
                             /\ answer.filePath = session.files[i].path
                /\ (~over /\ unreviewed = {}) => answer.status = "completed"

\* C3 witness: get-next-review-file has just refused to name a file of a
\* session that is over its limit with files left, and the session's second
\* entry is the one still unreviewed.
C3_Witness ==
    /\ resp.op = "next"
    /\ resp.status = "token_limit_exceeded"
    /\ resp.pendingCount = 1
    /\ Len(sessions[resp.sessionId].files) = 2
    /\ sessions[resp.sessionId].files[1].reviewed

\* C4: start-review-session with forceNew off, for a project whose indexed
\* session is stored and not completed, creates nothing: the same sessions
\* are stored, the index is the same, the session's window count is 0 and
\* its total is what it was.
C4_ResumeCreatesNothing ==
    \A a \in IndexStartRequests :
        (/\ ~a.forceNew
         /\ a.projectRoot \in DOMAIN index
         /\ index[a.projectRoot] \in DOMAIN sessions
         /\ ~sessions[index[a.projectRoot]].completed) =>
            LET id == index[a.projectRoot]
                after == startReviewSession(a)
            IN  /\ DOMAIN after.sessions = DOMAIN sessions
                /\ after.index = index
                /\ after.resp.status = "resumed"
                /\ after.resp.sessionId = id
                /\ after.sessions[id].currentSessionTokenCount = 0
                /\ after.sessions[id].totalTokenCount = sessions[id].totalTokenCount

\* C4 witness: a session with tokens on its total has just been resumed
\* while another session is stored.
C4_Witness ==
    /\ resp.op = "start"
    /\ resp.status = "resumed"
    /\ Cardinality(DOMAIN sessions) = 2
    /\ sessions[resp.sessionId].totalTokenCount > 0
    /\ sessions[resp.sessionId].currentSessionTokenCount = 0

\* C5: complete-review-session fails with the pending-files error, carrying
\* the number of unreviewed entries, and leaves the session not completed
\* whenever an entry is unreviewed; when none is it sets completed, also on
\* a session that is completed already.
C5_CompleteNeedsAllReviewed ==
    \A key \in DetailScope.keys :
        resolveKey(key) # None =>
            LET id == resolveKey(key)[1]
                after == completeReviewSession(key)
                unreviewed == {i \in 1..Len(sessions[id].files) :
                                  sessions[id].files[i].reviewed = FALSE}
            IN  /\ unreviewed # {} =>
                       /\ after.resp.status = "error"
                       /\ after.resp.message = "pending_files"
                       /\ after.resp.pendingCount = Cardinality(unreviewed)
                       /\ after.sessions = sessions
                       /\ after.sessions[id].completed = FALSE
                /\ unreviewed = {} =>
                       /\ after.resp.status = "success"
                       /\ after.sessions[id].completed = TRUE

\* C5 witness: completion has just been refused for a session with one of
\* its two files reviewed.
C5_Witness ==
    /\ resp.op = "complete"
    /\ resp.status = "error"
    /\ resp.pendingCount = 1
    /\ Len(sessions[resp.sessionId].files) = 2
    /\ ~sessions[resp.sessionId].completed

\* C6: a stored session that is completed stays stored and completed over
\* every step.
C6_CompletedIsMonotonic ==
    [][\A id \in DOMAIN sessions :
          sessions[id].completed =>
              (id \in DOMAIN sessions' /\ sessions'[id].completed)]_vars

\* C6 witness: a session has just been created for a project whose earlier
\* session is completed, and a review was submitted to the completed one.
C6_Witness ==
    /\ resp.op = "start"
    /\ resp.status = "created"
    /\ \E id \in DOMAIN sessions :
          /\ id # resp.sessionId
          /\ sessions[id].completed
          /\ sessions[id].projectFolder = sessions[resp.sessionId].projectFolder

\* C7 (as claimed): no project has two stored sessions that are not
\* completed.
C7_OneActiveSessionPerProject ==
    \A p \in Projects :
        Cardinality({id \in SessionsOf(p) : ~sessions[id].completed}) <= 1

(***************************************************************************)
(* Properties of the chunked reader.                                       *)
(***************************************************************************)
\* the call read from a line of the file
StartsInFile == chunk.called /\ chunk.startLine < Len(fileLines)

\* C8 (as claimed): for a start line in the file and a positive budget,
\* isEnded is true exactly when the chunk reaches the last line of the file.
C8_IsEndedIffLastLineRead ==
    (StartsInFile /\ budget > 0) =>
        (chunk.isEnded <=> chunk.endLine >= Len(fileLines))

\* C9 (as claimed), in the form a finite run refutes: a caller that chains
\* its calls from line 0 with a positive budget is told isEnded, with endLine
\* the number of lines, by the call that takes it to the end of the file.
\* (Each call moves the cursor forward, so a chain that passes the end
\* without isEnded is never told so later.)
C9_ChainIsToldTheEnd ==
    (chunk.called /\ chained /\ budget > 0 /\ chunk.endLine >= Len(fileLines)) =>
        (chunk.isEnded /\ chunk.endLine = Len(fileLines))

LinesTokenTotal(lines) ==
    LET lineTokens == countTokenLines(lines)
        upTo[n \in 0..Len(lines)] == IF n = 0 THEN 0 ELSE upTo[n - 1] + lineTokens[n]
    IN  upTo[Len(lines)]

C12_SubmittedReviewIsStored ==
    [][\A a \in DetailSubmitRequests :
          (/\ a.agentReview # ""
           /\ submitFileReview(a).resp.status = "success"
           /\ sessions' = submitFileReview(a).sessions
           /\ resp' = submitFileReview(a).resp) =>
              LET id == submitFileReview(a).resp.sessionId
                  entry == sessions'[id].files[findIndex(sessions'[id].files, a.filePath)]
              IN  /\ entry.reviewed
                  /\ entry.agentReview = Some(a.agentReview)
                  /\ getFileReview(id, a.filePath)'.resp.agentReview = a.agentReview]_vars

\* C13: submit-file-review for a path that no entry of the session has fails
\* with the handler's session-or-file-not-found error and saves nothing: the
\* stored sessions (entries, reviewed flags, both token counts) and the index
\* are what they were.
C13_UnknownPathIsRejected ==
    \A a \in DetailSubmitRequests :
        (/\ resolveKey(a.key) # None
         /\ \A i \in 1..Len(sessions[resolveKey(a.key)[1]].files) :
               sessions[resolveKey(a.key)[1]].files[i].path # a.filePath) =>
            /\ submitFileReview(a).resp.status = "error"
            /\ submitFileReview(a).resp.message = "update_failed"
            /\ submitFileReview(a).sessions = sessions
            /\ submitFileReview(a).index = index

\* C13 witness: a submission has just been rejected for a path outside the
\* list of a session that has tokens counted and a file left to review.
C13_Witness ==
    /\ resp.op = "submit"
    /\ resp.status = "error"
    /\ resp.message = "update_failed"
    /\ \E id \in DOMAIN sessions :
          /\ sessions[id].currentSessionTokenCount > 0
          /\ pendingCount(sessions[id].files) > 0

\* C14: when start-review-session finds no session to resume, the caller
\* supplied no file and listFiles returns an empty list, the handler answers
\* the no-files error; whenever it answers an error it stores no session and
\* leaves the index alone; and no stored session has an empty file list.
C14_NoSessionWithoutFiles ==
    /\ \A id \in DOMAIN sessions : sessions[id].files # <<>>
    /\ \A a \in DetailStartRequests :
          /\ (/\ ~resumable(a.projectRoot, a.forceNew)
              /\ a.files = <<>>
              /\ a.listing.ok
              /\ a.listing.files = <<>>) =>
                 /\ startReviewSession(a).resp.status = "error"
                 /\ startReviewSession(a).resp.message = "no_files"
          /\ startReviewSession(a).resp.status = "error" =>
                 /\ startReviewSession(a).sessions = sessions
                 /\ startReviewSession(a).index = index

\* C14 witness: the no-files error has just been answered for a project
\* whose indexed session is completed, and that session is all there is.
C14_Witness ==
    /\ resp.op = "start"
    /\ resp.status = "error"
    /\ resp.message = "no_files"
    /\ DOMAIN index # {}
    /\ \A id \in DOMAIN sessions : sessions[id].completed

\* C15 (as claimed): once an entry has a tokenCount, no step lowers it.
C15_TokenCountNeverDecreases ==
    [][\A id \in DOMAIN sessions : \A i \in 1..Len(sessions[id].files) :
          sessions[id].files[i].tokenCount # None =>
              /\ sessions'[id].files[i].tokenCount # None
              /\ sessions'[id].files[i].tokenCount[1]
                     >= sessions[id].files[i].tokenCount[1]]_vars

\* C15 (amended): a successful submit-file-review sets the tokenCount of the
\* entry it updates to that submission's cost (the amount the window count
\* grows by), whether or not the entry had one; every other step, and the
\* submission for every other entry, leaves tokenCount as it was.
C15_TokenCountIsLastSubmissionCost ==
    [][\A id \in DOMAIN sessions : \A i \in 1..Len(sessions[id].files) :
          IF /\ resp'.op = "submit"
             /\ resp'.status = "success"
             /\ resp'.sessionId = id
             /\ i = findIndex(sessions[id].files, resp'.filePath)
          THEN sessions'[id].files[i].tokenCount =
                   Some(sessions'[id].currentSessionTokenCount
                            - sessions[id].currentSessionTokenCount)
          ELSE sessions'[id].files[i].tokenCount
                   = sessions[id].files[i].tokenCount]_vars

\* C15 witness: a one-file session whose window count is positive while its
\* only entry was just submitted at cost 0: an earlier submission of the same
\* file cost more.
C15_Witness ==
    /\ resp.op = "submit"
    /\ resp.status = "success"
    /\ Len(sessions[resp.sessionId].files) = 1
    /\ sessions[resp.sessionId].files[1].tokenCount = Some(0)
    /\ sessions[resp.sessionId].currentSessionTokenCount > 0

\* C16: a step that is a successful submit-file-review raises the session's
\* window count by exactly the tokens of the file content read plus those of
\* the review text, whether or not the file was reviewed before, and answers
\* exceedsTokenLimit = (window count > tokenLimit); a resume sets the window
\* count to 0 and keeps the total; no other step changes a window count.
C16_WindowGrowsBySubmissionCost ==
    [][/\ (resp'.op = "submit" /\ resp'.status = "success") =>
          \A a \in DetailSubmitRequests :
             (/\ resp'.filePath = a.filePath
              /\ resp' = submitFileReview(a).resp
              /\ sessions' = submitFileReview(a).sessions) =>
                 LET id == submitFileReview(a).resp.sessionId
                     cost == encodeLength(readForReview(a)) + encodeLength(a.agentReview)
                 IN  /\ sessions'[id].currentSessionTokenCount
                            = sessions[id].currentSessionTokenCount + cost
                     /\ resp'.tokenCount = sessions'[id].currentSessionTokenCount
                     /\ resp'.exceedsTokenLimit
                            = (sessions[id].currentSessionTokenCount + cost
                                   > sessions[id].tokenLimit)
       /\ \A id \in DOMAIN sessions :
             IF resp'.op = "submit" /\ resp'.status = "success" /\ resp'.sessionId = id
             THEN TRUE
             ELSE IF resp'.op = "start" /\ resp'.status = "resumed" /\ resp'.sessionId = id
             THEN /\ sessions'[id].currentSessionTokenCount = 0
                  /\ sessions'[id].totalTokenCount = sessions[id].totalTokenCount
             ELSE sessions'[id].currentSessionTokenCount
                      = sessions[id].currentSessionTokenCount]_vars

\* C16 witness (the claim's example at scale): with tokenLimit 2, two files
\* were submitted at costs that add up to 3, past the limit, and the session
\* has just been resumed: window count 0, total still 3.
C16_Witness ==
    /\ resp.op = "start"
    /\ resp.status = "resumed"
    /\ sessions[resp.sessionId].tokenLimit = 2
    /\ sessions[resp.sessionId].currentSessionTokenCount = 0
    /\ sessions[resp.sessionId].totalTokenCount = 3

\* C17: a step that resumes a session changes, of all that is stored, only
\* that session's window count, which becomes 0: the session keeps its id,
\* project, tokenLimit, completed flag, total and every entry's path,
\* reviewed flag, feedback, agentReview and tokenCount, the other sessions
\* and the index are untouched, and a resume right after a resume of the
\* same session changes nothing.  (updatedAt, which saveSession stamps, is
\* outside the model.)
C17_ResumeResetsWindowOnly ==
    [][(resp'.op = "start" /\ resp'.status = "resumed") =>
          LET id == resp'.sessionId
          IN  /\ id \in DOMAIN sessions
              /\ sessions' = [sessions EXCEPT
                                 ![id] = [@ EXCEPT !.currentSessionTokenCount = 0]]
              /\ index' = index
              /\ (resp.op = "start" /\ resp.status = "resumed" /\ resp.sessionId = id)
                     => sessions' = sessions]_vars

\* C17 witness: a session has just been resumed whose first entry is
\* reviewed with a review text and a token count, and whose second is not.
C17_Witness ==
    /\ resp.op = "start"
    /\ resp.status = "resumed"
    /\ Len(sessions[resp.sessionId].files) = 2
    /\ sessions[resp.sessionId].files[1].reviewed
    /\ sessions[resp.sessionId].files[1].feedback = "r"
    /\ sessions[resp.sessionId].files[1].tokenCount = Some(2)
    /\ ~sessions[resp.sessionId].files[2].reviewed
    /\ sessions[resp.sessionId].currentSessionTokenCount = 0

\* C18: whenever start-review-session creates a session from a non-empty
\* list L (the caller's, or the one listFiles returned), the session stored
\* under the new id has one entry per element of L, in L's order, each
\* unreviewed with empty feedback and no review or token count, both token
\* counts 0, completed false, the caller's tokenLimit and project.
C18_CreatedSessionMirrorsList ==
    \A a \in DetailStartRequests :
        startReviewSession(a).resp.status = "created" =>
            LET list == IF a.files # <<>> THEN a.files ELSE a.listing.files
                session == startReviewSession(a)
                               .sessions[startReviewSession(a).resp.sessionId]
            IN  /\ list # <<>>
                /\ Len(session.files) = Len(list)
                /\ startReviewSession(a).resp.pendingCount = Len(list)
                /\ \A i \in 1..Len(list) :
                      /\ session.files[i].path = list[i]
                      /\ session.files[i].reviewed = FALSE
                      /\ session.files[i].feedback = ""
                      /\ session.files[i].agentReview = None
                      /\ session.files[i].tokenCount = None
                /\ session.totalTokenCount = 0
                /\ session.currentSessionTokenCount = 0
                /\ session.completed = FALSE
                /\ session.tokenLimit = a.tokenLimit
                /\ session.projectFolder = a.projectRoot

\* C18 witness: a session has just been created from the list b, a with
\* tokenLimit 2.
C18_Witness ==
    /\ resp.op = "start"
    /\ resp.status = "created"
    /\ resp.pendingCount = 2
    /\ sessions[resp.sessionId].files[1].path = "b"
    /\ sessions[resp.sessionId].files[2].path = "a"
    /\ sessions[resp.sessionId].tokenLimit = 2

\* the place of a session id in the order of creation
CreationOrder(id) == CHOOSE i \in 1..Len(SessionIdSeq) : SessionIdSeq[i] = id

\* C19: the index maps every project that has sessions to the one created
\* last, so a project root resolves to that session and to no superseded
\* one, while every stored session, superseded ones included, resolves by
\* its own id; and every creation (forceNew, nothing indexed, or the indexed
\* session completed) stores the session under an unused id, points the
\* project's index entry at it and leaves the stored sessions as they were.
C19_IndexNamesNewestSession ==
    /\ \A p \in Projects :
          SessionsOf(p) # {} =>
              /\ resolveKey(p) # None
              /\ resolveKey(p)[1] \in SessionsOf(p)
              /\ \A id \in SessionsOf(p) :
                    CreationOrder(id) <= CreationOrder(resolveKey(p)[1])
    /\ \A id \in DOMAIN sessions : resolveKey(id) = Some(id)
    /\ \A a \in IndexStartRequests :
          startReviewSession(a).resp.status = "created" =>
              LET new == startReviewSession(a).resp.sessionId
              IN  /\ new \notin DOMAIN sessions
                  /\ startReviewSession(a).index[a.projectRoot] = new
                  /\ \A p \in DOMAIN index \ {a.projectRoot} :
                        startReviewSession(a).index[p] = index[p]
                  /\ \A id \in DOMAIN sessions :
                        startReviewSession(a).sessions[id] = sessions[id]

\* C19 witness: a second session has just been created for a project whose
\* first session is still stored, and the project root resolves to the
\* second.
C19_Witness ==
    /\ resp.op = "start"
    /\ resp.status = "created"
    /\ resp.sessionId = "s2"
    /\ sessions["s1"].projectFolder = sessions["s2"].projectFolder
    /\ resolveKey(sessions["s2"].projectFolder) = Some("s2")
    /\ resolveKey("s1") = Some("s1")

\* the session a key stands for: the session stored under the key, else the
\* stored session the index names for the key, else none
KeyedSession(key) ==
    IF key \in DOMAIN sessions THEN Some(key)
    ELSE IF key \in DOMAIN index /\ index[key] \in DOMAIN sessions THEN Some(index[key])
    ELSE None

\* a submit-file-review request that names the project root explicitly
SubmitWithRoot(key, filePath, agentReview, onDisk) ==
    [key |-> key, filePath |-> filePath, agentReview |-> agentReview,
     projectRoot |-> "p1", onDisk |-> onDisk]

\* C20: get-next-review-file, submit-file-review, complete-review-session,
\* generate-review-report and get-file-review resolve their key alike.  A
\* key that stands for no session gets an error and nothing stored changes;
\* a key that stands for a session, by id or through the index, gets what
\* the same request addressed to that session's id gets, and that is not
\* the no-session error.
C20_KeyResolution ==
    \A key \in IndexScope.keys :
        IF KeyedSession(key) = None
        THEN /\ \A outcome \in
                    {getNextReviewFile(key), completeReviewSession(key),
                     generateReviewReport(key)}
                    \cup {getFileReview(key, f) : f \in IndexScope.paths}
                    \cup {submitFileReview(SubmitWithRoot(key, f, "r", ""))
                             : f \in IndexScope.paths} :
                    /\ outcome.resp.status = "error"
                    /\ outcome.resp.message = "no_session"
                    /\ outcome.sessions = sessions
                    /\ outcome.index = index
        ELSE LET id == KeyedSession(key)[1]
             IN  /\ getNextReviewFile(key) = getNextReviewFile(id)
                 /\ getNextReviewFile(key).resp.sessionId = id
                 /\ completeReviewSession(key) = completeReviewSession(id)
                 /\ completeReviewSession(key).resp.sessionId = id
                 /\ generateReviewReport(key) = generateReviewReport(id)
                 /\ generateReviewReport(key).resp.sessionId = id
                 /\ \A f \in IndexScope.paths :
                       /\ getFileReview(key, f) = getFileReview(id, f)
                       /\ getFileReview(key, f).resp.message # "no_session"
                       /\ submitFileReview(SubmitWithRoot(key, f, "r", ""))
                              = submitFileReview(SubmitWithRoot(id, f, "r", ""))
                       /\ submitFileReview(SubmitWithRoot(key, f, "r", ""))
                              .resp.message # "no_session"

\* C20 witness: a request keyed by a project without sessions has just been
\* answered the no-session error while the other project has two sessions,
\* one superseded in the index by the other.
C20_Witness ==
    /\ resp.status = "error"
    /\ resp.message = "no_session"
    /\ resp.op = "submit"
    /\ Cardinality(DOMAIN sessions) = 2
    /\ Cardinality(DOMAIN index) = 1

(***************************************************************************)
(* Damaged records.  A session file or project-index.json may hold text    *)
(* that is no JSON (a torn write, an edit by hand): reading it throws in   *)
(* JSON.parse, and getSession and getSessionIdForProject catch that.  A    *)
(* record that parses to a value of another shape is not modelled.         *)
(***************************************************************************)
\* What SpecCorrupt explores: two sessions of one project, one file.
CorruptScope ==
    [maxSessions |-> 2, projects |-> {"p1"}, keys |-> {"s1", "s2", "p1"},
     lists |-> {<<>>, <<"a">>}, limits |-> {1}, texts |-> {"r"},
     contents |-> {""}, paths |-> {"a"}]

CorruptStartRequests == StartRequests(CorruptScope)

CorruptSubmitRequests == SubmitRequests(CorruptScope)

\* the file of a stored session becomes unparseable
CorruptSession ==
    /\ \E id \in DOMAIN sessions \ unreadable : unreadable' = unreadable \cup {id}
    /\ UNCHANGED <<sessions, index, resp, submitted, indexUnreadable, stamped, writers, awaiting>>

\* project-index.json, once written, becomes unparseable
CorruptIndex ==
    /\ DOMAIN index # {}
    /\ ~indexUnreadable
    /\ indexUnreadable' = TRUE
    /\ UNCHANGED <<sessions, index, resp, submitted, unreadable, stamped, writers, awaiting>>

NextCorrupt ==
    \/ Start(CorruptScope, CorruptStartRequests) /\ UNCHANGED chunkVars
    \/ NextFile(CorruptScope) /\ UNCHANGED chunkVars
    \/ Submit(CorruptSubmitRequests) /\ UNCHANGED chunkVars
    \/ Complete(CorruptScope) /\ UNCHANGED chunkVars
    \/ Report(CorruptScope) /\ UNCHANGED chunkVars
    \/ FileReview(CorruptScope) /\ UNCHANGED chunkVars
    \/ CorruptSession /\ UNCHANGED chunkVars
    \/ CorruptIndex /\ UNCHANGED chunkVars

SpecCorrupt == Init /\ [][NextCorrupt]_vars

\* The key names a damaged record: it is the id of an unreadable session
\* file, or a project root whose index entry cannot be read or names an
\* unreadable session file.
DamagedKey(key) ==
    \/ key \in unreadable
    \/ key \in DOMAIN index /\ indexUnreadable
    \/ key \in DOMAIN index /\ ~indexUnreadable /\ index[key] \in unreadable

\* the handlers' answers when no usable session is behind the key
NotFoundMessages == {"no_session", "session_not_found", "update_failed"}

\* an outcome that is an error answer of that kind and stores nothing
NotFoundOutcome(outcome) ==
    /\ outcome.resp.status = "error"
    /\ outcome.resp.message \in NotFoundMessages
    /\ outcome.sessions = sessions
    /\ outcome.index = index
    /\ outcome.stamped = {}

WriterScope ==
    [maxSessions |-> 1, projects |-> {"p1"}, keys |-> {"s1"},
     lists |-> {<<"b", "a">>}, limits |-> {2}, texts |-> {"r"},
     contents |-> {""}, paths |-> {"a", "b"}]

WriterStartRequests == StartRequests(WriterScope)

WriterSubmitRequests == SubmitRequests(WriterScope)

\* submit-file-review up to the getSession of updateFileReview: the process
\* holds the session it has read; a call that finds no session or no entry
\* answers at once
WriterGet(w) ==
    \E a \in WriterSubmitRequests :
        /\ writers[w].pc = "idle"
        /\ IF resolveKey(a.key) # None
                /\ canUpdateFileReview(resolveKey(a.key)[1], a.filePath)
           THEN /\ writers' = [writers EXCEPT ![w] =
                       [pc |-> "read",
                        sessionId |-> resolveKey(a.key)[1],
                        request |-> Some(a),
                        session |-> Some(sessions[resolveKey(a.key)[1]])]]
                /\ UNCHANGED <<sessions, index, resp, submitted, unreadable,
                               indexUnreadable, stamped, awaiting>>
           ELSE /\ Apply(submitFileReview(a))
                /\ UNCHANGED submitted

\* A store that reads the session again at the time of the save.
WriterSaveReread(w) ==
    LET a == writers[w].request[1]
        sessionId == writers[w].sessionId
        session == reviewedSession(sessions[sessionId], a.filePath,
                                   readForReview(a), TRUE, a.agentReview, None)
    IN  /\ writers[w].pc = "read"
        /\ session.currentSessionTokenCount <= MaxWindow
        /\ sessions' = saveSession(sessionId, session)
        /\ resp' = [Response("submit", "success", "", sessionId, a.filePath,
                             pendingCount(session.files))
                    EXCEPT !.tokenCount = session.currentSessionTokenCount,
                           !.exceedsTokenLimit =
                               session.currentSessionTokenCount > session.tokenLimit]
        /\ stamped' = {sessionId}
        /\ submitted' = submitted \cup {<<sessionId, a.filePath>>}
        /\ writers' = [writers EXCEPT ![w] = IdleWriter]
        /\ UNCHANGED <<index, unreadable, indexUnreadable, awaiting>>

\* the rest of updateFileReview and of the handler: the changes are made to
\* the session the process has read, which is saved whole, and the answer
\* is built from it
WriterSave(w) ==
    LET a == writers[w].request[1]
        sessionId == writers[w].sessionId
        session == reviewedSession(writers[w].session[1], a.filePath,
                                   readForReview(a), TRUE, a.agentReview, None)
    IN  /\ writers[w].pc = "read"
        /\ session.currentSessionTokenCount <= MaxWindow
        /\ sessions' = saveSession(sessionId, session)
        /\ resp' = [Response("submit", "success", "", sessionId, a.filePath,
                             pendingCount(session.files))
                    EXCEPT !.tokenCount = session.currentSessionTokenCount,
                           !.exceedsTokenLimit =
                               session.currentSessionTokenCount > session.tokenLimit]
        /\ stamped' = {sessionId}
        /\ submitted' = submitted \cup {<<sessionId, a.filePath>>}
        /\ writers' = [writers EXCEPT ![w] = IdleWriter]
        /\ UNCHANGED <<index, unreadable, indexUnreadable, awaiting>>

NextWriters ==
    \/ Start(WriterScope, WriterStartRequests) /\ UNCHANGED chunkVars
    \/ \E w \in Writers : WriterGet(w) /\ UNCHANGED chunkVars
    \/ \E w \in Writers : WriterSave(w) /\ UNCHANGED chunkVars

SpecWriters == Init /\ [][NextWriters]_vars

\* C22: updateFileReview is not atomic between two processes.  A process
\* that saves writes the session it read, changed by its own submission
\* only: whatever another process saved since the read (the reviewed flag
\* and tokenCount of its file, its addition to the window count) is not in
\* the stored session after the save.  The witness is the interleaving
\* get A, get B, save B, save A.
C22_SaveWritesTheSessionRead ==
    [][\A w \in Writers :
          (writers[w].pc = "read" /\ writers'[w].pc = "idle") =>
              LET a == writers[w].request[1]
                  id == writers[w].sessionId
                  read == writers[w].session[1]
                  cost == countToken(readForReview(a)) + countToken(a.agentReview)
              IN  /\ sessions'[id].currentSessionTokenCount
                        = read.currentSessionTokenCount + cost
                  /\ \A i \in 1..Len(read.files) :
                        read.files[i].path # a.filePath =>
                            sessions'[id].files[i] = read.files[i]]_vars

\* Both processes have answered "success", B for file "b" and then A for
\* file "a"; the stored session shows "b" unreviewed, without a tokenCount,
\* and a window count of A's submission alone.
C22_Witness ==
    /\ \A w \in Writers : writers[w].pc = "idle"
    /\ {<<"s1", "a">>, <<"s1", "b">>} \subseteq submitted
    /\ resp.status = "success"
    /\ resp.filePath = "a"
    /\ \E i \in 1..Len(sessions["s1"].files) :
          /\ sessions["s1"].files[i].path = "b"
          /\ ~sessions["s1"].files[i].reviewed
          /\ sessions["s1"].files[i].tokenCount = None
    /\ sessions["s1"].currentSessionTokenCount = 1

\* C23: generate-review-report, get-next-review-file and get-file-review
\* are read-only.  Whatever they answer, the stored sessions and the project
\* index are the same after the call and no session file is written (so no
\* updatedAt changes); and in the report of a stored session the number of
\* reviewed files plus the number of pending files is the number of files.
\* (The report handler writes through saveSessionReport, which is not in
\* the source and is taken from the specification.)
C23_ReadersChangeNothing ==
    [][resp'.op \in {"next", "report", "review"} =>
          /\ sessions' = sessions
          /\ index' = index
          /\ indexUnreadable' = indexUnreadable
          /\ stamped' = {}
          /\ (resp'.op = "report" /\ resp'.status = "success") =>
                LET report == generateSessionReport(resp'.sessionId)
                IN  /\ report.found
                    /\ report.reviewedFiles + report.pendingFiles = report.totalFiles]_vars

\* A report was made of a session with one file reviewed and one pending,
\* and the call wrote no session file.
C23_Witness ==
    /\ resp.op = "report"
    /\ resp.status = "success"
    /\ stamped = {}
    /\ LET report == generateSessionReport(resp.sessionId)
       IN  /\ report.reviewedFiles = 1
           /\ report.pendingFiles = 1

\* C24 (as claimed): in every stored session the paths of the file entries
\* are pairwise distinct, whatever list was passed to start-review-session.
C24_PathsPairwiseDistinct ==
    \A id \in DOMAIN sessions :
        \A i, j \in 1..Len(sessions[id].files) :
            sessions[id].files[i].path = sessions[id].files[j].path => i = j

\* C25: file discovery in mode "glob" without a pattern fails and creates
\* no session, and so does an unknown mode.  listFiles throws for mode
\* "glob" with no pattern and for a mode it has no method for, whatever the
\* folder holds; a start-review-session that gets as far as file discovery
\* (no list from the caller, no session resumed) in mode "glob" without a
\* pattern answers with an error, and stores and indexes nothing.
C25_GlobNeedsPattern ==
    /\ \A found \in Listings :
          /\ ~listFiles("glob", "", found).ok
          /\ \A mode \in ListModes \ ListFilesMode, glob \in Globs :
                ~listFiles(mode, glob, found).ok
    /\ \A a \in DetailStartRequests :
          (/\ a.mode = "glob"
           /\ a.glob = ""
           /\ a.files = <<>>
           /\ ~resumable(a.projectRoot, a.forceNew)) =>
              /\ startReviewSession(a).resp.status = "error"
              /\ startReviewSession(a).sessions = sessions
              /\ startReviewSession(a).index = index
              /\ startReviewSession(a).stamped = {}

\* start-review-session has answered that the pattern is required, and no
\* session is stored.
C25_Witness ==
    /\ resp.op = "start"
    /\ resp.status = "error"
    /\ resp.message = "glob_required"
    /\ sessions = <<>>

(***************************************************************************)
(* The store function updateFileReview called with all its parameters.     *)
(* The submit-file-review handler of index.ts 396-488 passes five          *)
(* arguments (the review text as feedback); the handler of index.ts 1149   *)
(* passes six, feedback and agentReview.  StoreCalls are the calls with    *)
(* six parameters, reviewed = true as in every call of index.ts.           *)
(***************************************************************************)
\* What SpecStore explores: one session of one or two files.
StoreScope ==
    [maxSessions |-> 1, projects |-> {"p1"}, keys |-> {"s1"},
     lists |-> {<<"a">>, <<"b", "a">>}, limits |-> {2}, texts |-> {"", "r", "x"},
     contents |-> {""}, paths |-> {"a", "b"}]

StoreStartRequests == StartRequests(StoreScope)

\* agentReview is optional: None is a call that leaves it out.
StoreCalls ==
    [sessionId : StoreScope.keys, filePath : StoreScope.paths,
     fileContent : StoreScope.contents, feedback : {"", "r"},
     agentReview : {None} \cup {Some(t) : t \in StoreScope.texts}]

\* `if (agentReview)`: the argument is given and is not the empty text
truthy(agentReview) == agentReview # None /\ agentReview # Some("")

\* a call of updateFileReview: null when the session or the entry is not
\* found, else the changed session, saved
updateFileReviewCall(c) ==
    LET session == updateFileReview(c.sessionId, c.filePath, c.fileContent, TRUE,
                                    c.feedback, c.agentReview)
    IN  IF ~canUpdateFileReview(c.sessionId, c.filePath)
        THEN ErrorOutcome("update", "update_failed")
        ELSE Saved(c.sessionId, session,
                   [Response("update", "success", "", c.sessionId, c.filePath,
                             pendingCount(session.files))
                    EXCEPT !.tokenCount = session.currentSessionTokenCount])

UpdateFileReview ==
    \E c \in StoreCalls :
        LET outcome == updateFileReviewCall(c)
            ok == outcome.resp.status = "success"
        IN  /\ ok => outcome.sessions[c.sessionId].currentSessionTokenCount <= MaxWindow
            /\ Apply(outcome)
            /\ submitted' = IF ok
                            THEN submitted \cup {<<c.sessionId, c.filePath>>}
                            ELSE submitted

NextStore ==
    \/ Start(StoreScope, StoreStartRequests) /\ UNCHANGED chunkVars
    \/ UpdateFileReview /\ UNCHANGED chunkVars
    \/ FileReview(StoreScope) /\ UNCHANGED chunkVars

SpecStore == Init /\ [][NextStore]_vars

\* C26 (as claimed): an entry's agentReview is set once: a step that finds
\* one stored leaves it as it is.
C26_AgentReviewSetOnce ==
    [][\A id \in DOMAIN sessions : \A i \in 1..Len(sessions[id].files) :
          sessions[id].files[i].agentReview # None =>
              sessions'[id].files[i].agentReview
                  = sessions[id].files[i].agentReview]_vars

\* C26 (amended): an entry's agentReview is set by every successful
\* submission for the file that supplies a non-empty agentReview, the first
\* or a later one, and by nothing else.  A step changes the stored
\* agentReview of an entry only as a call of updateFileReview for that
\* entry with a non-empty agentReview, and to that value; once stored it is
\* never removed or emptied.
C26_AgentReviewIsLastSupplied ==
    [][\A id \in DOMAIN sessions : \A i \in 1..Len(sessions[id].files) :
          LET before == sessions[id].files[i].agentReview
              after == sessions'[id].files[i].agentReview
          IN  /\ before # None => truthy(after)
              /\ after # before =>
                    /\ resp'.op = "update"
                    /\ resp'.status = "success"
                    /\ \E c \in StoreCalls :
                          /\ c.sessionId = id
                          /\ findIndex(sessions[id].files, c.filePath) = i
                          /\ truthy(c.agentReview)
                          /\ after = c.agentReview
                          /\ sessions' = updateFileReviewCall(c).sessions
              /\ (resp'.op = "update" /\ resp'.status = "success") =>
                    \A c \in StoreCalls :
                        (/\ c.sessionId = id
                         /\ findIndex(sessions[id].files, c.filePath) = i
                         /\ truthy(c.agentReview)
                         /\ sessions' = updateFileReviewCall(c).sessions
                         /\ resp' = updateFileReviewCall(c).resp) =>
                            after = c.agentReview]_vars

\* The entry for "a" holds agentReview "x" after a successful call of
\* updateFileReview for "a", and the window holds the tokens of two calls
\* at least.
C26_Witness ==
    /\ resp.op = "update"
    /\ resp.status = "success"
    /\ resp.filePath = "a"
    /\ <<"s1", "a">> \in submitted
    /\ \E i \in 1..Len(sessions["s1"].files) :
          /\ sessions["s1"].files[i].path = "a"
          /\ sessions["s1"].files[i].agentReview = Some("x")
    /\ sessions["s1"].currentSessionTokenCount >= 2

\* C27: a successful call of updateFileReview for file F with no agentReview
\* or an empty one leaves the agentReview stored for F as it was, sets
\* reviewed to true and replaces feedback with the feedback argument; a call
\* with a non-empty agentReview stores that value.  Every other entry keeps
\* its agentReview, feedback and reviewed flag.
C27_EmptyAgentReviewKeepsStored ==
    [][(resp'.op = "update" /\ resp'.status = "success") =>
          \A c \in StoreCalls :
              (/\ sessions' = updateFileReviewCall(c).sessions
               /\ resp' = updateFileReviewCall(c).resp) =>
                  LET before == sessions[c.sessionId].files
                      after == sessions'[c.sessionId].files
                      F == findIndex(before, c.filePath)
                  IN  /\ after[F].reviewed
                      /\ after[F].feedback = c.feedback
                      /\ after[F].agentReview =
                             IF truthy(c.agentReview) THEN c.agentReview
                             ELSE before[F].agentReview
                      /\ \A i \in 1..Len(before) :
                            i # F =>
                                /\ after[i].agentReview = before[i].agentReview
                                /\ after[i].feedback = before[i].feedback
                                /\ after[i].reviewed = before[i].reviewed]_vars

\* The last call for "a" supplied feedback "r" and no agentReview text (the
\* entry's tokenCount is that of the feedback alone), and the entry still
\* holds the agentReview "x" stored by an earlier call.
C27_Witness ==
    /\ resp.op = "update"
    /\ resp.status = "success"
    /\ resp.filePath = "a"
    /\ \E i \in 1..Len(sessions["s1"].files) :
          /\ sessions["s1"].files[i].path = "a"
          /\ sessions["s1"].files[i].agentReview = Some("x")
          /\ sessions["s1"].files[i].feedback = "r"
          /\ sessions["s1"].files[i].tokenCount = Some(1)
          /\ sessions["s1"].files[i].reviewed

\* the tokens of the lines [from, to) of the file, lines counted from 0
RangeTokenTotal(from, to) == LinesTokenTotal(SubSeq(fileLines, from + 1, to))

C29_ChunksJoinToTheFile ==
    chunk.called =>
        /\ chunk.content = join(slice(fileLines, chunk.startLine, chunk.endLine))
        /\ (chained /\ budget > 0) =>
              joined = join(slice(fileLines, 0, chunk.endLine))

\* the paths of a file list, in order
PathsOf(files) == [i \in 1..Len(files) |-> files[i].path]

\* C30: no handler changes the id, the projectFolder, the tokenLimit, the
\* number of file entries or the order of their paths of a stored session.
\* Every step (start or resume, get-next, submit, complete, report,
\* get-file-review) leaves each stored session stored under the same key
\* with these five as before, and the id in the record is the key: so they
\* are the values createSession gave them.
C30_CreationValuesAreFixed ==
    [][\A sessionId \in DOMAIN sessions :
          /\ sessions[sessionId].id = sessionId
          /\ sessionId \in DOMAIN sessions'
          /\ sessions'[sessionId].id = sessions[sessionId].id
          /\ sessions'[sessionId].projectFolder = sessions[sessionId].projectFolder
          /\ sessions'[sessionId].tokenLimit = sessions[sessionId].tokenLimit
          /\ Len(sessions'[sessionId].files) = Len(sessions[sessionId].files)
          /\ PathsOf(sessions'[sessionId].files) = PathsOf(sessions[sessionId].files)]_vars

\* A session created with the list b, a and limit 2 has been submitted to
\* for both files and completed: it still has its id, project, limit and
\* the two paths in that order.
C30_Witness ==
    /\ resp.op = "complete"
    /\ resp.status = "success"
    /\ sessions["s1"].completed
    /\ sessions["s1"].id = "s1"
    /\ sessions["s1"].projectFolder = "p1"
    /\ sessions["s1"].tokenLimit = 2
    /\ PathsOf(sessions["s1"].files) = <<"b", "a">>
    /\ {<<"s1", "a">>, <<"s1", "b">>} \subseteq submitted

\* C36 (as claimed): no call returns an endLine greater than the number of
\* lines of the file, whatever the start line and the budget.
C36_EndLineWithinFile ==
    chunk.called => chunk.endLine <= Len(fileLines)

\* C35: in every reachable state a completed session has no unreviewed file
\* entry.  complete-review-session (index.ts 490-587) records completion
\* only when no entry is pending, and no later handler sets reviewed back to
\* false.  (The complete handlers of the other revisions kept in index.ts,
\* lines 1217 and 1909, call completeSession without that check.)
C35_CompletedHasNoPendingFile ==
    \A sessionId \in DOMAIN sessions :
        sessions[sessionId].completed =>
            \A i \in 1..Len(sessions[sessionId].files) :
                sessions[sessionId].files[i].reviewed

\* A submission has just succeeded on a session of two files that was
\* completed before: both entries are still reviewed.
C35_Witness ==
    /\ resp.op = "submit"
    /\ resp.status = "success"
    /\ sessions["s1"].completed
    /\ Len(sessions["s1"].files) = 2
    /\ \A i \in 1..2 : sessions["s1"].files[i].reviewed

\* C34 (as claimed): a completed session is frozen: no step changes the file
\* entries, the totalTokenCount or the currentSessionTokenCount of a session
\* whose completed flag is set.
C34_CompletedSessionIsFrozen ==
    [][\A sessionId \in DOMAIN sessions :
          sessions[sessionId].completed =>
              /\ sessions'[sessionId].files = sessions[sessionId].files
              /\ sessions'[sessionId].totalTokenCount
                     = sessions[sessionId].totalTokenCount
              /\ sessions'[sessionId].currentSessionTokenCount
                     = sessions[sessionId].currentSessionTokenCount]_vars

\* a submit-file-review request without a projectRoot argument, made while
\* the project folder holds onDisk for the path
SubmitByKey(key, filePath, agentReview, onDisk) ==
    [key |-> key, filePath |-> filePath, agentReview |-> agentReview,
     projectRoot |-> "", onDisk |-> onDisk]

\* the tokenCount a successful submission leaves on the entry for filePath
SubmittedTokenCount(outcome, filePath) ==
    LET files == outcome.sessions[outcome.resp.sessionId].files
    IN  files[findIndex(files, filePath)].tokenCount

\* C33 (as claimed): the token cost of a submission does not depend on how
\* the session is addressed.  For a stored session, a file and a review
\* text, with the same content on disk, the submission keyed by the session
\* id without projectRoot and the submission keyed by the project root that
\* the index resolves to that session leave the same tokenCount on the
\* entry: the tokens of the file content plus those of the review text.
C33_CostIndependentOfAddressing ==
    \A sessionId \in DOMAIN sessions, filePath \in Paths, text \in Texts,
       onDisk \in Contents :
        LET byId == submitFileReview(SubmitByKey(sessionId, filePath, text, onDisk))
            byRoot == submitFileReview(
                          SubmitByKey(sessions[sessionId].projectFolder, filePath,
                                      text, onDisk))
        IN  (/\ byId.resp.status = "success"
             /\ byRoot.resp.status = "success"
             /\ byRoot.resp.sessionId = sessionId) =>
                /\ SubmittedTokenCount(byId, filePath)
                       = SubmittedTokenCount(byRoot, filePath)
                /\ SubmittedTokenCount(byId, filePath)
                       = Some(countToken(onDisk) + countToken(text))

\* C38: referential integrity of the project index.  In every reachable
\* state each entry P -> id of the index names a stored session record
\* whose id is id and whose projectFolder is P, and no session stored for P
\* was created after it.
C38_IndexEntriesNameStoredSessions ==
    \A P \in DOMAIN index :
        /\ index[P] \in DOMAIN sessions
        /\ sessions[index[P]].id = index[P]
        /\ sessions[index[P]].projectFolder = P
        /\ \A other \in DOMAIN sessions :
              sessions[other].projectFolder = P
                  => CreationOrder(other) <= CreationOrder(index[P])

\* Both projects are indexed, each entry naming the one session of its
\* project.
C38_Witness ==
    /\ DOMAIN index = {"p1", "p2"}
    /\ index["p1"] # index["p2"]
    /\ Cardinality(DOMAIN sessions) = 2
    /\ resp.op = "start"
    /\ resp.status = "created"

\* The handlers over two projects, with an index file that may become
\* unreadable.
NextIndexFault ==
    \/ NextIndex
    \/ CorruptIndex /\ UNCHANGED chunkVars

SpecIndexFault == Init /\ [][NextIndexFault]_vars

\* C37 (as claimed): creating a session for project P changes only P's
\* entry of the project index, also when the index could not be read at the
\* time of the creation: a step that answers "created" for P leaves every
\* other entry of the index in place, naming the same session id.
C37_CreationKeepsOtherEntries ==
    [][(resp'.op = "start" /\ resp'.status = "created") =>
          \A a \in IndexStartRequests :
              (/\ sessions' = startReviewSession(a).sessions
               /\ index' = startReviewSession(a).index
               /\ resp' = startReviewSession(a).resp) =>
                  \A P \in DOMAIN index \ {a.projectRoot} :
                      /\ P \in DOMAIN index'
                      /\ index'[P] = index[P]]_vars

(***************************************************************************)
(* Interleaved start-review-session calls in one server process.  The      *)
(* handler is an async function: it runs without interruption up to        *)
(* `await listFiles(...)` (index.ts 207-213), where another call may run,  *)
(* and from there to its end.  A call with a files argument, a call that   *)
(* resumes and a call that answers before listFiles never suspend.         *)
(***************************************************************************)
\* What SpecStarts explores: one project, no forceNew, discovered lists.
StartsScope ==
    [maxSessions |-> 2, projects |-> {"p1"}, keys |-> {"p1"},
     lists |-> {<<>>, <<"a">>}, limits |-> TokenLimits, texts |-> {"r"},
     contents |-> {""}, paths |-> {"a"}]

StartsRequests == {a \in StartRequests(StartsScope) : ~a.forceNew}

\* the call reaches `await listFiles`: no session to resume, no files
\* argument, a mode that lists files, and a pattern in mode "glob"
reachesAwait(a) ==
    /\ ~resumable(a.projectRoot, a.forceNew)
    /\ a.files = <<>>
    /\ a.mode \in ListFilesMode
    /\ ~(a.mode = "glob" /\ a.glob = "")

\* start-review-session up to the await, or to its end when it has none
StartCall(c) ==
    \E a \in StartsRequests :
        /\ awaiting[c] = None
        /\ IF reachesAwait(a)
           THEN /\ awaiting' = [awaiting EXCEPT ![c] = Some(a)]
                /\ UNCHANGED <<sessions, index, resp, submitted, unreadable,
                               indexUnreadable, stamped, writers>>
           ELSE /\ startReviewSession(a).resp.status = "created"
                       => Cardinality(DOMAIN sessions) < StartsScope.maxSessions
                /\ sessions' = startReviewSession(a).sessions
                /\ index' = startReviewSession(a).index
                /\ resp' = startReviewSession(a).resp
                /\ indexUnreadable' = startReviewSession(a).indexUnreadable
                /\ stamped' = startReviewSession(a).stamped
                /\ UNCHANGED <<submitted, unreadable, writers, awaiting>>

\* start-review-session from the await on: listFiles has settled, and the
\* handler goes on to the empty-list check and createSession without
\* looking for a session to resume again
StartContinue(c) ==
    /\ awaiting[c] # None
    /\ LET outcome == startNewSession(awaiting[c][1])
       IN  /\ outcome.resp.status = "created"
                  => Cardinality(DOMAIN sessions) < StartsScope.maxSessions
           /\ sessions' = outcome.sessions
           /\ index' = outcome.index
           /\ resp' = outcome.resp
           /\ indexUnreadable' = outcome.indexUnreadable
           /\ stamped' = outcome.stamped
    /\ awaiting' = [awaiting EXCEPT ![c] = None]
    /\ UNCHANGED <<submitted, unreadable, writers>>

NextStarts ==
    \/ \E c \in Calls : StartCall(c) /\ UNCHANGED chunkVars
    \/ \E c \in Calls : StartContinue(c) /\ UNCHANGED chunkVars
    \/ NextFile(StartsScope) /\ UNCHANGED chunkVars
    \/ Submit(SubmitRequests(StartsScope)) /\ UNCHANGED chunkVars

SpecStarts == Init /\ [][NextStarts]_vars

\* C32 (as claimed): start-review-session calls with forceNew = false for
\* one project that interleave at the await never create two sessions for
\* it.  No session is completed in these runs, so a call that finds the
\* first session resumes it: the project has one session at most.
C32_OneSessionPerProject ==
    \A p \in StartsScope.projects : Cardinality(SessionsOf(p)) <= 1

(***************************************************************************)
(* A caller that follows the review workflow on one session: it creates    *)
(* the session from its own file list, asks for the next file, submits a   *)
(* review for the file it was given, resumes when get-next-review-file     *)
(* answers token_limit_exceeded, and completes the session when told that  *)
(* all files are reviewed.  What the caller does next depends on the last  *)
(* answer, resp.                                                           *)
(***************************************************************************)
WorkflowScope ==
    [maxSessions |-> 1, projects |-> {"p1"}, keys |-> {"s1", "p1"},
     lists |-> SuppliedLists, limits |-> TokenLimits, texts |-> Texts,
     contents |-> Contents, paths |-> Paths]

WorkflowStartRequests == StartRequests(WorkflowScope)

WorkflowSubmitRequests == SubmitRequests(WorkflowScope)

\* the caller creates the session from a file list of its own
WorkflowStart ==
    /\ sessions = <<>>
    /\ \E a \in WorkflowStartRequests :
          /\ a.files # <<>>
          /\ Apply(startReviewSession(a))
    /\ UNCHANGED submitted

\* the caller asks for the next file after a start, a resume or a submission
WorkflowNextFile ==
    /\ resp.op \in {"start", "submit"}
    /\ resp.status \in {"created", "resumed", "success"}
    /\ \E key \in WorkflowScope.keys : Apply(getNextReviewFile(key))
    /\ UNCHANGED submitted

\* the caller submits a review for the file it has just been given, once
WorkflowSubmit ==
    /\ resp.op = "next"
    /\ resp.status = "success"
    /\ \E a \in WorkflowSubmitRequests :
          /\ a.filePath = resp.filePath
          /\ submitFileReview(a).resp.status = "success"
          /\ Apply(submitFileReview(a))
          /\ submitted' = submitted \cup {<<submitFileReview(a).resp.sessionId, a.filePath>>}

\* the caller resumes when told that the window is used up with files left
WorkflowResume ==
    /\ resp.op = "next"
    /\ resp.status = "token_limit_exceeded"
    /\ \E a \in WorkflowStartRequests :
          /\ a.mode = "resume"
          /\ ~a.forceNew
          /\ a.files = <<>>
          /\ Apply(startReviewSession(a))
    /\ UNCHANGED submitted

\* the caller completes the session when told that all files are reviewed
WorkflowComplete ==
    /\ resp.op = "next"
    /\ resp.status \in {"completed", "token_limit_exceeded_all_reviewed"}
    /\ \E key \in WorkflowScope.keys : Apply(completeReviewSession(key))
    /\ UNCHANGED submitted

NextWorkflow ==
    \/ WorkflowStart /\ UNCHANGED chunkVars
    \/ WorkflowNextFile /\ UNCHANGED chunkVars
    \/ WorkflowSubmit /\ UNCHANGED chunkVars
    \/ WorkflowResume /\ UNCHANGED chunkVars
    \/ WorkflowComplete /\ UNCHANGED chunkVars

SpecWorkflow == Init /\ [][NextWorkflow]_vars

\* C39: while the caller submits only for the file get-next-review-file has
\* just given it, one submission each, the window count stays within the
\* limit plus the cost of the last submission.  Every submission starts
\* from a window count at or under tokenLimit, so the count after it is at
\* most tokenLimit plus what it added; no other step raises the count.
C39_WindowOvershootIsOneSubmission ==
    [][\A sessionId \in DOMAIN sessions :
          LET before == sessions[sessionId].currentSessionTokenCount
              after == sessions'[sessionId].currentSessionTokenCount
          IN  IF resp'.op = "submit" /\ resp'.status = "success"
              THEN /\ before <= sessions[sessionId].tokenLimit
                   /\ after <= sessions[sessionId].tokenLimit + (after - before)
              ELSE after <= before]_vars

\* A submission of 2 tokens has just taken the window from 1, the limit, to
\* 3: over the limit by no more than its own cost.
C39_Witness ==
    /\ resp.op = "submit"
    /\ resp.status = "success"
    /\ sessions["s1"].tokenLimit = 1
    /\ sessions["s1"].currentSessionTokenCount = 3

\* The workflow with a caller that goes on calling: a step of the workflow
\* is taken whenever one is possible.  (Each handler returns; nothing in
\* the server holds a call back.)
SpecWorkflowFair == Init /\ [][NextWorkflow]_vars /\ WF_vars(NextWorkflow)

\* C31 (as claimed): workflow liveness.  For a session created from any
\* file list of the caller, the caller that asks for the next file, submits
\* a review for it and resumes when the window is used up is eventually
\* told that all files are reviewed, and complete-review-session then
\* succeeds.
C31_WorkflowCompletes ==
    <>(resp.op = "complete" /\ resp.status = "success")

====
